---- MODULE Spec2Model ----
(***************************************************************************)
(* Task Management System (src/app.py): the Task record, the TaskManager   *)
(* store, and its JSON persistence, as a state machine.                    *)
(*                                                                         *)
(* Python values.  An Optional value is None (the empty tuple) or <<v>>.   *)
(* A Task object lives in `heap` and is named by its index there, so that  *)
(* two places holding the same object (the caller's variable, two entries  *)
(* of TaskManager.tasks) see each other's changes, as in Python.           *)
(*                                                                         *)
(* Time.  datetime.now() is `now`, a count of ticks; a day has TicksPerDay *)
(* ticks and the tick whose remainder is 0 is 00:00:00 of its day.         *)
(***************************************************************************)
EXTENDS Integers, Sequences, FiniteSets, TLC

(* ------------------------------ bounds -------------------------------- *)
\* Task objects alive at one time.
MaxObjs == 2
\* Length of TaskManager.tasks.
MaxLen == 2
\* Add is not called once next_id exceeds this.
MaxId == 3
\* The clock reading at which the store's process runs (2024-01-02, after 00:00).
StartTime == 3
\* The clock stops ticking here (2024-01-04, after 00:00).
MaxTime == 7
\* Clock ticks in one day.
TicksPerDay == 2
\* Ticks of the clock while the store's process runs, where it is let tick.
MaxTicks == 2

VARIABLES
    heap,      \* the Task objects: heap[o] is the record of object o's attributes
    task,      \* the caller's variable `task` (main): None, or <<o>> for object o
    tasks,     \* TaskManager.tasks: a sequence of objects (indexes of heap)
    next_id,   \* TaskManager.next_id
    alive,     \* whether a TaskManager exists (its constructor returned)
    file,      \* the backing file: None when absent, else <<text>>
    now,       \* datetime.now()
    ret,       \* the last call: [op, arg, exc, val]
    assigned   \* history: the ids add_task has returned, in order

vars == <<heap, task, tasks, next_id, alive, file, now, ret, assigned>>

(* --------------------------- Python values ---------------------------- *)
None == <<>>
Some(v) == <<v>>

Range(s) == {s[i] : i \in 1..Len(s)}

\* What a call leaves behind: the value returned, or the exception raised.
Returned(op, arg, val) == [op |-> op, arg |-> arg, exc |-> "none", val |-> val]
Raised(op, arg, exc) == [op |-> op, arg |-> arg, exc |-> exc, val |-> None]
\* A complete_task that found its task; was is the completed_at the task had
\* when the call began (history).
Completion(task_id, was) ==
    [op |-> "complete_task", arg |-> task_id, exc |-> "none", val |-> TRUE,
     was |-> was]

(* ------------------------------- time --------------------------------- *)
\* datetime.now().strftime("%Y-%m-%d %H:%M:%S"): the text of a clock reading,
\* held as <<day, time of day>>.
strftime(t) == <<t \div TicksPerDay, t % TicksPerDay>>

\* The texts datetime.strptime(text, "%Y-%m-%d") accepts, with the day each names
\* (day 0 is 2024-01-01).  %m and %d accept one digit as well as two.
DateTexts ==
    [s \in {"2024-01-01", "2024-01-02", "2024-1-2", "2024-01-03", "2024-01-04"} |->
        CASE s = "2024-01-01" -> 0
          [] s = "2024-01-02" -> 1
          [] s = "2024-1-2" -> 1
          [] s = "2024-01-03" -> 2
          [] s = "2024-01-04" -> 3]

\* datetime.strptime(text, "%Y-%m-%d"): midnight of the day, or ValueError.
strptime(text) ==
    IF text \in DOMAIN DateTexts
    THEN [exc |-> "none", val |-> DateTexts[text] * TicksPerDay]
    ELSE [exc |-> "ValueError", val |-> 0]

(* ------------------------------- Task --------------------------------- *)
\* Task.__init__
TaskInit(title, description, priority, category, deadline, t) ==
    [id |-> None,
     title |-> title,
     description |-> description,
     priority |-> priority,
     category |-> category,
     completed |-> FALSE,
     created_at |-> strftime(t),
     deadline |-> deadline,
     completed_at |-> None]

\* mark_complete without its second assignment.
mark_complete_no_stamp(self, t) == [self EXCEPT !.completed = TRUE]

\* mark_complete keeping the first completion's stamp.
mark_complete_once(self, t) ==
    IF self.completed
    THEN self
    ELSE [self EXCEPT !.completed = TRUE, !.completed_at = Some(strftime(t))]

\* Task.mark_complete
mark_complete(self, t) ==
    [self EXCEPT !.completed = TRUE, !.completed_at = Some(strftime(t))]

\* Python truth of an Optional[str]: None and "" are false.
Truthy(opt) == opt # None /\ opt[1] # ""

\* is_overdue parsing the deadline before it looks at completed.
is_overdue_eager(self, t) ==
    IF self.deadline # None
    THEN LET deadline_date == strptime(self.deadline[1])
         IN  IF deadline_date.exc # "none"
             THEN [exc |-> deadline_date.exc, val |-> FALSE]
             ELSE [exc |-> "none", val |-> ~self.completed /\ t > deadline_date.val]
    ELSE [exc |-> "none", val |-> FALSE]

\* Task.is_overdue: [exc, val]
is_overdue(self, t) ==
    IF Truthy(self.deadline) /\ ~self.completed
    THEN LET deadline_date == strptime(self.deadline[1])
         IN  IF deadline_date.exc # "none"
             THEN [exc |-> deadline_date.exc, val |-> FALSE]
             ELSE [exc |-> "none", val |-> t > deadline_date.val]
    ELSE [exc |-> "none", val |-> FALSE]

\* Task.to_dict
to_dict(self) ==
    [id |-> self.id,
     title |-> self.title,
     description |-> self.description,
     priority |-> self.priority,
     category |-> self.category,
     completed |-> self.completed,
     created_at |-> self.created_at,
     deadline |-> self.deadline,
     completed_at |-> self.completed_at]

TaskKeys ==
    {"id", "title", "description", "priority", "category", "completed",
     "created_at", "deadline", "completed_at"}

\* from_dict without `task.completed = data['completed']`.
from_dict_pending(data, t) ==
    IF ~(TaskKeys \subseteq DOMAIN data)
    THEN [exc |-> "KeyError", val |-> None]
    ELSE [exc |-> "none",
          val |-> Some([TaskInit(data.title, data.description, data.priority,
                                 data.category, data.deadline, t)
                        EXCEPT !.id = data.id,
                               !.created_at = data.created_at,
                               !.completed_at = data.completed_at])]

\* Task.from_dict: [exc, val]; data[key] raises KeyError for a key the record lacks.
from_dict(data, t) ==
    IF ~(TaskKeys \subseteq DOMAIN data)
    THEN [exc |-> "KeyError", val |-> None]
    ELSE [exc |-> "none",
          val |-> Some([TaskInit(data.title, data.description, data.priority,
                                 data.category, data.deadline, t)
                        EXCEPT !.id = data.id,
                               !.completed = data.completed,
                               !.created_at = data.created_at,
                               !.completed_at = data.completed_at])]

(* ------------------------------- JSON --------------------------------- *)
\* The text json.dump writes is held as the JSON value it denotes.  A JSON value
\* is null, true, false, a number or a string (tagged tuples), an array (a
\* sequence) or an object (a function of its keys).
JNull == <<"null">>
JNum(n) == <<"number", n>>
JStr(s) == <<"string", s>>
JBool(b) == IF b THEN <<"true">> ELSE <<"false">>
JObject(obj) == <<"object", obj>>
\* A text that is no JSON document.
Garbage == <<"garbage">>

\* json.dump of one attribute: None is written null, a bool true or false, an
\* int a number, a str a string.
EncOptInt(v) == IF v = None THEN JNull ELSE JNum(v[1])
\* None written as the text of its name instead of null.
EncOptStr_name(v) == IF v = None THEN JStr("None") ELSE JStr(v[1])
EncOptStr(v) == IF v = None THEN JNull ELSE JStr(v[1])

\* json.dump of the dict Task.to_dict returns.
EncTask(d) ==
    [id |-> EncOptInt(d.id),
     title |-> JStr(d.title),
     description |-> JStr(d.description),
     priority |-> JStr(d.priority),
     category |-> JStr(d.category),
     completed |-> JBool(d.completed),
     created_at |-> JStr(d.created_at),
     deadline |-> EncOptStr(d.deadline),
     completed_at |-> EncOptStr(d.completed_at)]

\* json.dump(data, f, indent=2): the text written for {'next_id', 'tasks'}.
json_dump(data) ==
    JObject([next_id |-> JNum(data.next_id),
             tasks |-> [i \in 1..Len(data.tasks) |-> EncTask(data.tasks[i])]])

\* json.load of one attribute: null is read None, true and false a bool, a number
\* an int, a string a str.
DecOpt(j) == IF j[1] = "null" THEN None ELSE Some(j[2])
DecBool(j) == j[1] = "true"
DecField(k, j) ==
    CASE k \in {"id", "deadline", "completed_at"} -> DecOpt(j)
      [] k = "completed" -> DecBool(j)
      [] OTHER -> j[2]

DecTask(obj) == [k \in DOMAIN obj |-> DecField(k, obj[k])]

\* json.load(f): [exc, val]; the dict read, or JSONDecodeError.
json_load(text) ==
    IF text[1] # "object"
    THEN [exc |-> "JSONDecodeError", val |-> None]
    ELSE LET obj == text[2]
         IN  [exc |-> "none",
              val |-> [k \in DOMAIN obj |->
                         IF k = "next_id"
                         THEN obj[k][2]
                         ELSE [i \in 1..Len(obj[k]) |-> DecTask(obj[k][i])]]]

(* ---------------------------- TaskManager ----------------------------- *)
\* The Task records of a list of objects.
Records(hp, ts) == [i \in 1..Len(ts) |-> hp[ts[i]]]

\* TaskManager.save_tasks: the text the file holds afterwards.
save_tasks(nid, ts, hp) ==
    json_dump([next_id |-> nid,
               tasks |-> [i \in 1..Len(ts) |-> to_dict(hp[ts[i]])]])

\* data.get(key, default)
DictGet(data, key, default) == IF key \in DOMAIN data THEN data[key] ELSE default

\* The largest id of the task records read (0 when there is none).
RECURSIVE MaxIdOf(_)
MaxIdOf(dicts) ==
    IF dicts = <<>>
    THEN 0
    ELSE LET rest == MaxIdOf(Tail(dicts))
             id == IF Head(dicts).id = None THEN 0 ELSE Head(dicts).id[1]
         IN  IF id > rest THEN id ELSE rest

\* load_tasks taking next_id from the ids of the tasks it read.
load_tasks_max_id(f, t) ==
    IF f = None
    THEN [exc |-> "none", next_id |-> 1, tasks |-> <<>>]
    ELSE LET data == json_load(f[1])
         IN  IF data.exc # "none"
             THEN [exc |-> data.exc, next_id |-> 1, tasks |-> <<>>]
             ELSE LET dicts == DictGet(data.val, "tasks", <<>>)
                      made == [i \in 1..Len(dicts) |-> from_dict(dicts[i], t)]
                  IN  IF \E i \in 1..Len(dicts) : made[i].exc # "none"
                      THEN [exc |-> "KeyError", next_id |-> 1, tasks |-> <<>>]
                      ELSE [exc |-> "none",
                            next_id |-> MaxIdOf(dicts) + 1,
                            tasks |-> [i \in 1..Len(dicts) |-> made[i].val[1]]]

\* load_tasks counting the tasks it read instead of reading 'next_id'.
load_tasks_counting(f, t) ==
    IF f = None
    THEN [exc |-> "none", next_id |-> 1, tasks |-> <<>>]
    ELSE LET data == json_load(f[1])
         IN  IF data.exc # "none"
             THEN [exc |-> data.exc, next_id |-> 1, tasks |-> <<>>]
             ELSE LET dicts == DictGet(data.val, "tasks", <<>>)
                      made == [i \in 1..Len(dicts) |-> from_dict(dicts[i], t)]
                  IN  IF \E i \in 1..Len(dicts) : made[i].exc # "none"
                      THEN [exc |-> "KeyError", next_id |-> 1, tasks |-> <<>>]
                      ELSE [exc |-> "none",
                            next_id |-> Len(dicts) + 1,
                            tasks |-> [i \in 1..Len(dicts) |-> made[i].val[1]]]

\* TaskManager.load_tasks on a store just constructed (tasks = [], next_id = 1):
\* [exc, next_id, tasks], tasks being the Task records made, in file order.
load_tasks(f, t) ==
    IF f = None
    THEN [exc |-> "none", next_id |-> 1, tasks |-> <<>>]
    ELSE LET data == json_load(f[1])
         IN  IF data.exc # "none"
             THEN [exc |-> data.exc, next_id |-> 1, tasks |-> <<>>]
             ELSE LET dicts == DictGet(data.val, "tasks", <<>>)
                      made == [i \in 1..Len(dicts) |-> from_dict(dicts[i], t)]
                  IN  IF \E i \in 1..Len(dicts) : made[i].exc # "none"
                      THEN [exc |-> "KeyError",
                            next_id |-> DictGet(data.val, "next_id", 1),
                            tasks |-> <<>>]
                      ELSE [exc |-> "none",
                            next_id |-> DictGet(data.val, "next_id", 1),
                            tasks |-> [i \in 1..Len(dicts) |-> made[i].val[1]]]

\* TaskManager.get_task: the first object of the list with that id, or None.
get_task(hp, ts, task_id) ==
    LET hits == {i \in 1..Len(ts) : hp[ts[i]].id = Some(task_id)}
    IN  IF hits = {}
        THEN None
        ELSE Some(ts[CHOOSE i \in hits : \A j \in hits : i <= j])

\* list.remove(x): the list without its first element that is x.
ListRemove(ts, x) ==
    LET k == CHOOSE i \in 1..Len(ts) : ts[i] = x /\ \A j \in 1..(i - 1) : ts[j] # x
    IN  [i \in 1..(Len(ts) - 1) |-> IF i < k THEN ts[i] ELSE ts[i + 1]]

\* [t for t in self.tasks if <test>], built left to right; keep[o] is the test
\* of object o.
RECURSIVE Comprehension(_, _, _)
Comprehension(ts, keep, i) ==
    IF i > Len(ts)
    THEN <<>>
    ELSE IF keep[ts[i]]
         THEN <<ts[i]>> \o Comprehension(ts, keep, i + 1)
         ELSE Comprehension(ts, keep, i + 1)

get_tasks_by_category(hp, ts, category) ==
    LET keep == [o \in Range(ts) |-> hp[o].category = category]
    IN  Comprehension(ts, keep, 1)

get_tasks_by_priority(hp, ts, priority) ==
    LET keep == [o \in Range(ts) |-> hp[o].priority = priority]
    IN  Comprehension(ts, keep, 1)

get_pending_tasks(hp, ts) ==
    LET keep == [o \in Range(ts) |-> ~hp[o].completed]
    IN  Comprehension(ts, keep, 1)

\* get_completed_tasks with the test of get_pending_tasks.
get_completed_tasks_not(hp, ts) ==
    LET keep == [o \in Range(ts) |-> ~hp[o].completed]
    IN  Comprehension(ts, keep, 1)

get_completed_tasks(hp, ts) ==
    LET keep == [o \in Range(ts) |-> hp[o].completed]
    IN  Comprehension(ts, keep, 1)

\* TaskManager.get_overdue_tasks: [exc, val]; the first is_overdue that raises
\* ends the comprehension.
get_overdue_tasks(hp, ts, t) ==
    IF \E i \in 1..Len(ts) : is_overdue(hp[ts[i]], t).exc # "none"
    THEN [exc |-> "ValueError", val |-> None]
    ELSE LET keep == [o \in Range(ts) |-> is_overdue(hp[o], t).val]
         IN  [exc |-> "none", val |-> Comprehension(ts, keep, 1)]

(* ------------------------------- heap --------------------------------- *)
\* The objects something still refers to: the store's list or the caller's variable.
Live(ts, tk) == Range(ts) \cup Range(tk)

\* Python frees an object when the last reference to it goes.  The objects left
\* keep their order; Rank(o) is the new index of live object o.
Rank(ts, tk, o) == Cardinality({p \in Live(ts, tk) : p <= o})

CollectHeap(hp, ts, tk) ==
    [i \in 1..Cardinality(Live(ts, tk)) |->
        hp[CHOOSE o \in Live(ts, tk) : Rank(ts, tk, o) = i]]

CollectRefs(refs, ts, tk) == [i \in 1..Len(refs) |-> Rank(ts, tk, refs[i])]

(* ------------------------------ inputs -------------------------------- *)
\* The arguments of Task(...): <<title, description, priority, category, deadline>>.
\* No deadline, a date, and a text that is no date.
TaskArgs ==
    {<<"Buy milk", "", "high", "work", Some("2024-01-02")>>,
     <<"Call Ann", "2 pm", "medium", "general", None>>,
     <<"Buy milk", "", "high", "general", Some("soon")>>}
Priorities == {a[3] : a \in TaskArgs}
Categories == {a[4] : a \in TaskArgs}
\* The ids the caller asks for; the list is too short to hold them all.
IdArgs == 1..MaxId

(* ------------------------------ actions ------------------------------- *)
\* The clock moves on.
Tick ==
    /\ now < MaxTime
    /\ now' = now + 1
    /\ UNCHANGED <<heap, task, tasks, next_id, alive, file, ret, assigned>>

\* task = Task(title, description, priority, category, deadline), as in main():
\* the caller's variable now names a new object, and the object it named is freed
\* unless the store holds it.
Construct(title, description, priority, category, deadline) ==
    LET made == Len(heap) + 1
        hp == Append(heap, TaskInit(title, description, priority, category,
                                    deadline, now))
    IN  /\ alive
        /\ Cardinality(Live(tasks, Some(made))) <= MaxObjs
        /\ heap' = CollectHeap(hp, tasks, Some(made))
        /\ tasks' = CollectRefs(tasks, tasks, Some(made))
        /\ task' = CollectRefs(Some(made), tasks, Some(made))
        /\ ret' = Returned("Task", None, task'[1])
        /\ UNCHANGED <<next_id, alive, file, now, assigned>>

\* TaskManager(filename): a new process constructs the store on the file; the
\* objects of the old process are gone.
TaskManager ==
    LET loaded == load_tasks(file, now)
    IN  /\ IF loaded.exc = "none"
           THEN /\ alive' = TRUE
                /\ heap' = loaded.tasks
                /\ tasks' = [i \in 1..Len(loaded.tasks) |-> i]
                /\ next_id' = loaded.next_id
                /\ ret' = Returned("TaskManager", None, None)
           ELSE /\ alive' = FALSE
                /\ heap' = <<>>
                /\ tasks' = <<>>
                /\ next_id' = 1
                /\ ret' = Raised("TaskManager", None, loaded.exc)
        /\ task' = None
        /\ UNCHANGED <<file, now, assigned>>

\* add_task parsing the deadline first, and raising when it is not a date.
add_task_validating ==
    /\ alive
    /\ task # None
    /\ Len(tasks) < MaxLen
    /\ next_id <= MaxId
    /\ IF heap[task[1]].deadline # None
          /\ strptime(heap[task[1]].deadline[1]).exc # "none"
       THEN /\ ret' = Raised("add_task", task[1], "ValueError")
            /\ UNCHANGED <<heap, task, tasks, next_id, alive, file, now, assigned>>
       ELSE /\ heap' = [heap EXCEPT ![task[1]].id = Some(next_id)]
            /\ tasks' = Append(tasks, task[1])
            /\ next_id' = next_id + 1
            /\ file' = Some(save_tasks(next_id', tasks', heap'))
            /\ ret' = Returned("add_task", task[1], heap'[task[1]].id[1])
            /\ assigned' = Append(assigned, heap'[task[1]].id[1])
            /\ UNCHANGED <<task, alive, now>>

\* add_task taking the next id from the length of the list.
add_task_by_length ==
    /\ alive
    /\ task # None
    /\ Len(tasks) < MaxLen
    /\ next_id <= MaxId
    /\ heap' = [heap EXCEPT ![task[1]].id = Some(next_id)]
    /\ tasks' = Append(tasks, task[1])
    /\ next_id' = Len(tasks') + 1
    /\ file' = Some(save_tasks(next_id', tasks', heap'))
    /\ ret' = Returned("add_task", task[1], heap'[task[1]].id[1])
    /\ assigned' = Append(assigned, heap'[task[1]].id[1])
    /\ UNCHANGED <<task, alive, now>>

\* TaskManager.add_task(task), called with the caller's variable.
add_task ==
    /\ alive
    /\ task # None
    /\ Len(tasks) < MaxLen
    /\ next_id <= MaxId
    /\ heap' = [heap EXCEPT ![task[1]].id = Some(next_id)]
    /\ tasks' = Append(tasks, task[1])
    /\ next_id' = next_id + 1
    /\ file' = Some(save_tasks(next_id', tasks', heap'))
    /\ ret' = Returned("add_task", task[1], heap'[task[1]].id[1])
    /\ assigned' = Append(assigned, heap'[task[1]].id[1])
    /\ UNCHANGED <<task, alive, now>>

\* delete_task keeping the tasks that have another id, instead of removing the
\* one it found.
delete_task_filtering(task_id) ==
    /\ alive
    /\ LET found == get_task(heap, tasks, task_id)
       IN  IF found # None
           THEN LET keep == [o \in Range(tasks) |-> heap[o].id # Some(task_id)]
                    ts == Comprehension(tasks, keep, 1)
                IN  /\ file' = Some(save_tasks(next_id, ts, heap))
                    /\ heap' = CollectHeap(heap, ts, task)
                    /\ tasks' = CollectRefs(ts, ts, task)
                    /\ task' = CollectRefs(task, ts, task)
                    /\ ret' = Returned("delete_task", task_id, TRUE)
           ELSE /\ ret' = Returned("delete_task", task_id, FALSE)
                /\ UNCHANGED <<heap, task, tasks, file>>
    /\ UNCHANGED <<next_id, alive, now, assigned>>

\* delete_task taking task_id for a place in the list.
delete_task_by_place(task_id) ==
    /\ alive
    /\ IF task_id \in 1..Len(tasks)
       THEN LET ts == [i \in 1..(Len(tasks) - 1) |->
                         IF i < task_id THEN tasks[i] ELSE tasks[i + 1]]
            IN  /\ file' = Some(save_tasks(next_id, ts, heap))
                /\ heap' = CollectHeap(heap, ts, task)
                /\ tasks' = CollectRefs(ts, ts, task)
                /\ task' = CollectRefs(task, ts, task)
                /\ ret' = Returned("delete_task", task_id, TRUE)
       ELSE /\ ret' = Returned("delete_task", task_id, FALSE)
            /\ UNCHANGED <<heap, task, tasks, file>>
    /\ UNCHANGED <<next_id, alive, now, assigned>>

\* TaskManager.delete_task(task_id)
delete_task(task_id) ==
    /\ alive
    /\ LET found == get_task(heap, tasks, task_id)
       IN  IF found # None
           THEN LET ts == ListRemove(tasks, found[1])
                IN  /\ file' = Some(save_tasks(next_id, ts, heap))
                    /\ heap' = CollectHeap(heap, ts, task)
                    /\ tasks' = CollectRefs(ts, ts, task)
                    /\ task' = CollectRefs(task, ts, task)
                    /\ ret' = Returned("delete_task", task_id, TRUE)
           ELSE /\ ret' = Returned("delete_task", task_id, FALSE)
                /\ UNCHANGED <<heap, task, tasks, file>>
    /\ UNCHANGED <<next_id, alive, now, assigned>>

\* complete_task without its save_tasks call.
complete_task_no_save(task_id) ==
    /\ alive
    /\ LET found == get_task(heap, tasks, task_id)
       IN  IF found # None
           THEN /\ heap' = [heap EXCEPT ![found[1]] = mark_complete(@, now)]
                /\ ret' = Returned("complete_task", task_id, TRUE)
           ELSE /\ ret' = Returned("complete_task", task_id, FALSE)
                /\ UNCHANGED heap
    /\ UNCHANGED <<task, tasks, file, next_id, alive, now, assigned>>

\* TaskManager.complete_task(task_id)
complete_task(task_id) ==
    /\ alive
    /\ LET found == get_task(heap, tasks, task_id)
       IN  IF found # None
           THEN /\ heap' = [heap EXCEPT ![found[1]] = mark_complete(@, now)]
                /\ file' = Some(save_tasks(next_id, tasks, heap'))
                /\ ret' = Completion(task_id, heap[found[1]].completed_at)
           ELSE /\ ret' = Returned("complete_task", task_id, FALSE)
                /\ UNCHANGED <<heap, file>>
    /\ UNCHANGED <<task, tasks, next_id, alive, now, assigned>>

\* save_tasks raising OSError: the files it can leave. open() raised and the
\* file is as it was, or the write raised after open() emptied the file and
\* what it holds is no JSON text.
save_tasks_raising(f) == {f, Some(Garbage)}

\* add_task undoing what it did when save_tasks raises.
add_task_rollback ==
    /\ alive
    /\ task # None
    /\ Len(tasks) < MaxLen
    /\ next_id <= MaxId
    /\ file' \in save_tasks_raising(file)
    /\ ret' = Raised("add_task", task[1], "OSError")
    /\ UNCHANGED <<heap, task, tasks, next_id, alive, now, assigned>>

\* add_task when its save_tasks call raises: the exception leaves add_task
\* after the id, the list and next_id were set, and nothing is returned.
add_task_raising ==
    /\ alive
    /\ task # None
    /\ Len(tasks) < MaxLen
    /\ next_id <= MaxId
    /\ heap' = [heap EXCEPT ![task[1]].id = Some(next_id)]
    /\ tasks' = Append(tasks, task[1])
    /\ next_id' = next_id + 1
    /\ file' \in save_tasks_raising(file)
    /\ ret' = Raised("add_task", task[1], "OSError")
    /\ UNCHANGED <<task, alive, now, assigned>>

\* delete_task when its save_tasks call raises.
delete_task_raising(task_id) ==
    /\ alive
    /\ LET found == get_task(heap, tasks, task_id)
       IN  /\ found # None
           /\ LET ts == ListRemove(tasks, found[1])
              IN  /\ file' \in save_tasks_raising(file)
                  /\ heap' = CollectHeap(heap, ts, task)
                  /\ tasks' = CollectRefs(ts, ts, task)
                  /\ task' = CollectRefs(task, ts, task)
                  /\ ret' = Raised("delete_task", task_id, "OSError")
    /\ UNCHANGED <<next_id, alive, now, assigned>>

\* complete_task when its save_tasks call raises.
complete_task_raising(task_id) ==
    /\ alive
    /\ LET found == get_task(heap, tasks, task_id)
       IN  /\ found # None
           /\ heap' = [heap EXCEPT ![found[1]] = mark_complete(@, now)]
           /\ file' \in save_tasks_raising(file)
           /\ ret' = Raised("complete_task", task_id, "OSError")
    /\ UNCHANGED <<task, tasks, next_id, alive, now, assigned>>

\* A call that reads the store and returns val.
Query(op, arg, val) ==
    /\ alive
    /\ ret' = Returned(op, arg, val)
    /\ UNCHANGED <<heap, task, tasks, next_id, alive, file, now, assigned>>

GetTask(task_id) == Query("get_task", task_id, get_task(heap, tasks, task_id))

ByCategory(category) ==
    Query("get_tasks_by_category", category,
          get_tasks_by_category(heap, tasks, category))

ByPriority(priority) ==
    Query("get_tasks_by_priority", priority,
          get_tasks_by_priority(heap, tasks, priority))

Pending == Query("get_pending_tasks", None, get_pending_tasks(heap, tasks))

Completed == Query("get_completed_tasks", None, get_completed_tasks(heap, tasks))

Overdue ==
    LET r == get_overdue_tasks(heap, tasks, now)
    IN  /\ alive
        /\ ret' = IF r.exc = "none"
                  THEN Returned("get_overdue_tasks", None, r.val)
                  ELSE Raised("get_overdue_tasks", None, r.exc)
        /\ UNCHANGED <<heap, task, tasks, next_id, alive, file, now, assigned>>

\* Task.is_overdue() of the caller's task.
IsOverdue ==
    LET r == is_overdue(heap[task[1]], now)
    IN  /\ task # None
        /\ ret' = IF r.exc = "none"
                  THEN Returned("is_overdue", None, r.val)
                  ELSE Raised("is_overdue", None, r.exc)
        /\ UNCHANGED <<heap, task, tasks, next_id, alive, file, now, assigned>>

\* Task.mark_complete() of the caller's task.
MarkComplete ==
    /\ task # None
    /\ heap' = [heap EXCEPT ![task[1]] = mark_complete(@, now)]
    /\ ret' = Returned("mark_complete", None, None)
    /\ UNCHANGED <<task, tasks, next_id, alive, file, now, assigned>>

(* --------------------------- specification ---------------------------- *)
\* A store constructed where no file exists.
Init ==
    /\ heap = <<>>
    /\ task = None
    /\ tasks = <<>>
    /\ next_id = 1
    /\ alive = TRUE
    /\ file = None
    /\ now = StartTime
    /\ ret = Returned("TaskManager", None, None)
    /\ assigned = <<>>

Next ==
    \/ \E a \in TaskArgs : Construct(a[1], a[2], a[3], a[4], a[5])
    \/ TaskManager
    \/ add_task
    \/ \E id \in IdArgs : delete_task(id)
    \/ \E id \in IdArgs : complete_task(id)
    \/ \E id \in IdArgs : GetTask(id)
    \/ \E ca \in Categories : ByCategory(ca)
    \/ \E pr \in Priorities : ByPriority(pr)
    \/ Pending
    \/ Completed
    \/ Overdue

Spec == Init /\ [][Next]_vars

(* ------------------ the store with a running clock ------------------- *)
\* The clock moves on while the store's process runs.
ClockTick ==
    /\ now < StartTime + MaxTicks
    /\ Tick

NextClock ==
    \/ ClockTick
    \/ \E a \in TaskArgs : Construct(a[1], a[2], a[3], a[4], a[5])
    \/ add_task
    \/ \E id \in IdArgs : complete_task(id)

SpecClock == Init /\ [][NextClock]_vars

(* ------------------- the overdue check on its own --------------------- *)
\* The deadlines a task is given here: none, the empty text, dates in both
\* spellings strptime accepts, and texts that are no date.
DeadlineArgs ==
    {None, Some(""), Some("2024-01-02"), Some("2024-1-2"), Some("2024-01-03"),
     Some("soon"), Some("2024-02-30")}

\* One task, just constructed, at any clock reading; no store.
InitOverdue ==
    /\ \E dl \in DeadlineArgs :
          heap = <<TaskInit("Buy milk", "", "high", "general", dl, 0)>>
    /\ task = Some(1)
    /\ tasks = <<>>
    /\ next_id = 1
    /\ alive = FALSE
    /\ file = None
    /\ now = 0
    /\ ret = Returned("Task", None, 1)
    /\ assigned = <<>>

NextOverdue ==
    \/ Tick
    \/ IsOverdue
    \/ MarkComplete

SpecOverdue == InitOverdue /\ [][NextOverdue]_vars

(* ----------------- the store constructed on any file ------------------ *)
\* A task record as save_tasks writes it.
FileTask(id, completed, completed_at) ==
    [id |-> JNum(id),
     title |-> JStr("Buy milk"),
     description |-> JStr(""),
     priority |-> JStr("high"),
     category |-> JStr("work"),
     completed |-> JBool(completed),
     created_at |-> JStr(strftime(0)),
     deadline |-> JNull,
     completed_at |-> completed_at]

\* The same record without its "title".
FileTaskNoTitle ==
    [k \in TaskKeys \ {"title"} |-> FileTask(1, FALSE, JNull)[k]]

(* ------------------- the store and the overdue check ------------------ *)
\* Tasks of every kind of deadline in a store, and the two overdue checks.
NextDeadline ==
    \/ \E dl \in DeadlineArgs : Construct("Buy milk", "", "high", "general", dl)
    \/ add_task
    \/ \E id \in IdArgs : complete_task(id)
    \/ IsOverdue
    \/ Overdue

SpecDeadline == Init /\ [][NextDeadline]_vars

(* --------------------- the store on a failing file -------------------- *)
\* One store from construction on; every save_tasks call can raise.
NextPersist ==
    \/ Construct("Call Ann", "2 pm", "medium", "general", None)
    \/ add_task
    \/ \E id \in IdArgs : delete_task(id)
    \/ \E id \in IdArgs : complete_task(id)
    \/ add_task_raising
    \/ \E id \in IdArgs : delete_task_raising(id)
    \/ \E id \in IdArgs : complete_task_raising(id)

SpecPersist == Init /\ [][NextPersist]_vars

\* The files the store is constructed on: no file, files save_tasks can have
\* written, and files it cannot have written.
FileInputs ==
    {None,
     Some(JObject([next_id |-> JNum(1), tasks |-> <<>>])),
     Some(JObject([next_id |-> JNum(3), tasks |-> <<>>])),
     Some(JObject([next_id |-> JNum(2), tasks |-> <<FileTask(1, FALSE, JNull)>>])),
     Some(JObject([next_id |-> JNum(1), tasks |-> <<FileTask(1, FALSE, JNull)>>])),
     Some(JObject([tasks |-> <<FileTask(2, FALSE, JNull)>>])),
     Some(JObject([next_id |-> JNum(2)])),
     Some(JObject([next_id |-> JNum(2), tasks |-> <<FileTaskNoTitle>>])),
     Some(Garbage)}

\* No store yet: the first step constructs it.
InitLoad ==
    /\ heap = <<>>
    /\ task = None
    /\ tasks = <<>>
    /\ next_id = 1
    /\ alive = FALSE
    /\ file \in FileInputs
    /\ now = StartTime
    /\ ret = Returned("main", None, None)
    /\ assigned = <<>>

NextLoad ==
    \/ TaskManager
    \/ \E a \in TaskArgs : Construct(a[1], a[2], a[3], a[4], a[5])
    \/ add_task
    \/ \E id \in IdArgs : delete_task(id)
    \/ \E id \in IdArgs : complete_task(id)

SpecLoad == InitLoad /\ [][NextLoad]_vars

(* ------------------------------ claims -------------------------------- *)
\* The task at place i of the store's list.
At(i) == heap[tasks[i]]

\* No task of the store has this id.
NoTaskHas(id) == \A i \in 1..Len(tasks) : At(i).id # Some(id)

\* C1: no two places of the store's list hold tasks with the same id.
C1_UniqueIds ==
    \A i, j \in 1..Len(tasks) : i # j => At(i).id # At(j).id

\* C2: the ids add_task returns are strictly increasing, whatever is deleted or
\* completed in between.
C2_IdsIncrease ==
    \A i, j \in 1..Len(assigned) : i < j => assigned[i] < assigned[j]

\* An add_task that follows a deletion: it returns a third id to a store that
\* holds one task.
C2_Witness ==
    /\ ret.op = "add_task"
    /\ Len(assigned) = 3
    /\ ret.val = assigned[3]
    /\ Len(tasks) = 1

\* C3: next_id is greater than the id of every task in the store and than every
\* id add_task has returned, whatever file the store was constructed on.
C3_NextIdAbove ==
    alive =>
        /\ \A i \in 1..Len(tasks) : At(i).id[1] < next_id
        /\ \A i \in 1..Len(assigned) : assigned[i] < next_id

\* C4: a task is completed exactly when its completed_at is set.
C4_CompletedIffStamp ==
    \A o \in 1..Len(heap) : heap[o].completed <=> (heap[o].completed_at # None)

\* A store loaded from its file, holding a completed and a pending task.
C4_Witness ==
    /\ ret.op = "TaskManager"
    /\ \E i \in 1..Len(tasks) : At(i).completed
    /\ \E i \in 1..Len(tasks) : ~At(i).completed

\* The record the file format has for a task.
Written(t) ==
    [id |-> <<"number", t.id[1]>>,
     title |-> <<"string", t.title>>,
     description |-> <<"string", t.description>>,
     priority |-> <<"string", t.priority>>,
     category |-> <<"string", t.category>>,
     completed |-> IF t.completed THEN <<"true">> ELSE <<"false">>,
     created_at |-> <<"string", t.created_at>>,
     deadline |-> IF t.deadline = None THEN <<"null">>
                  ELSE <<"string", t.deadline[1]>>,
     completed_at |-> IF t.completed_at = None THEN <<"null">>
                      ELSE <<"string", t.completed_at[1]>>]

\* The last call changed the store: an add_task, or a delete_task or
\* complete_task that found its task.
Mutated ==
    \/ ret.op = "add_task"
    \/ ret.op \in {"delete_task", "complete_task"} /\ ret.val = TRUE

\* C5: when add_task, a delete_task or a complete_task that found its task has
\* returned, the file holds the store as it is in memory: next_id, and the
\* tasks with their attributes, in order.
C5_FileIsStore ==
    Mutated =>
        /\ file # None
        /\ file[1][1] = "object"
        /\ DOMAIN file[1][2] = {"next_id", "tasks"}
        /\ file[1][2].next_id = <<"number", next_id>>
        /\ Len(file[1][2].tasks) = Len(tasks)
        /\ \A i \in 1..Len(tasks) : file[1][2].tasks[i] = Written(At(i))

\* A complete_task has returned True in a store of two tasks.
C5_Witness ==
    /\ ret.op = "complete_task"
    /\ ret.val = TRUE
    /\ Len(tasks) = 2

\* C6: a store constructed on the file the last save wrote has the same next_id
\* and tasks equal in every attribute, in the same order.
C6_RoundTrip ==
    [][(alive /\ ret'.op = "TaskManager") =>
          /\ alive'
          /\ next_id' = next_id
          /\ Records(heap', tasks') = Records(heap, tasks)]_vars

\* A store loaded from its file: two tasks, one completed, one with no deadline
\* and one with a deadline.
C6_Witness ==
    /\ ret.op = "TaskManager"
    /\ Len(tasks) = 2
    /\ \E i \in 1..2 : At(i).completed /\ At(i).completed_at # None
    /\ \E i \in 1..2 : At(i).deadline = None
    /\ \E i \in 1..2 : At(i).deadline # None

\* C7: is_overdue returns True exactly when the deadline is set, the task is not
\* completed, and the current date is after the deadline's date (a task due
\* today is not overdue at any time of today).  Stated of the deadlines that
\* are absent or a date.
C7_DayGranularity ==
    [][(/\ ret'.op = "is_overdue"
        /\ ret'.exc = "none"
        /\ UNCHANGED <<heap, task, now>>
        /\ \/ heap[task[1]].deadline = None
           \/ heap[task[1]].deadline[1] \in DOMAIN DateTexts) =>
          ret'.val =
              (/\ heap[task[1]].deadline # None
               /\ ~heap[task[1]].completed
               /\ now \div TicksPerDay > DateTexts[heap[task[1]].deadline[1]])]_vars

\* C8: delete_task and complete_task with an id no task has return False and
\* change neither the tasks, next_id nor the file; get_task returns None.
C8_UnknownId ==
    [][/\ (ret'.op \in {"delete_task", "complete_task"} /\ NoTaskHas(ret'.arg)) =>
            /\ ret'.exc = "none"
            /\ ret'.val = FALSE
            /\ UNCHANGED <<heap, task, tasks, next_id, file>>
       /\ (ret'.op = "get_task" /\ NoTaskHas(ret'.arg)) =>
            /\ ret'.exc = "none"
            /\ ret'.val = None
            /\ UNCHANGED <<heap, task, tasks, next_id, file>>]_vars

\* A delete_task has returned False in a store that holds a task.
C8_Witness ==
    /\ ret.op = "delete_task"
    /\ ret.val = FALSE
    /\ Len(tasks) > 0

\* The places of the list that hold a task of the set kept, in the list's order.
Those(kept) == LET Test(o) == o \in kept IN SelectSeq(tasks, Test)

\* C9: each view returns the tasks of the list that satisfy its test, in the
\* list's order, and changes neither the store nor the file.
C9_Views ==
    [][ret'.op \in {"get_tasks_by_category", "get_tasks_by_priority",
                    "get_pending_tasks", "get_completed_tasks"} =>
          /\ UNCHANGED <<heap, task, tasks, next_id, file>>
          /\ ret'.exc = "none"
          /\ ret'.op = "get_tasks_by_category" =>
                ret'.val = Those({o \in Range(tasks) : heap[o].category = ret'.arg})
          /\ ret'.op = "get_tasks_by_priority" =>
                ret'.val = Those({o \in Range(tasks) : heap[o].priority = ret'.arg})
          /\ ret'.op = "get_pending_tasks" =>
                ret'.val = Those({o \in Range(tasks) : heap[o].completed = FALSE})
          /\ ret'.op = "get_completed_tasks" =>
                ret'.val = Those({o \in Range(tasks) : heap[o].completed = TRUE})]_vars

\* get_completed_tasks has returned the second of two tasks, and only it.
C9_Witness ==
    /\ ret.op = "get_completed_tasks"
    /\ Len(tasks) = 2
    /\ tasks[1] # tasks[2]
    /\ ret.val = <<tasks[2]>>

\* The place in the list, before a step, of the task that is at place i after
\* it: a delete_task that found its task moves the later tasks up by one.
PlaceBefore(i) ==
    IF ret'.op = "delete_task" /\ Len(tasks') < Len(tasks)
    THEN LET k == CHOOSE p \in 1..Len(tasks) :
                     /\ At(p).id = Some(ret'.arg)
                     /\ \A q \in 1..(p - 1) : At(q).id # Some(ret'.arg)
         IN  IF i < k THEN i ELSE i + 1
    ELSE i

\* C10: a completed task of the store is completed after every step that leaves
\* it in the store.
C10_OneWay ==
    [][\A i \in 1..Len(tasks') :
          (PlaceBefore(i) <= Len(tasks) /\ At(PlaceBefore(i)).completed) =>
              heap'[tasks'[i]].completed]_vars

\* A completed task is in the store after a later add_task.
C10_Witness ==
    /\ ret.op = "add_task"
    /\ Len(tasks) = 2
    /\ At(1).completed
    /\ ~At(2).completed

\* PlaceBefore for a delete_task that raised after it removed its task.
PlaceBeforeRaised(i) ==
    LET k == CHOOSE p \in 1..Len(tasks) :
                /\ At(p).id = Some(ret'.arg)
                /\ \A q \in 1..(p - 1) : At(q).id # Some(ret'.arg)
    IN  IF i < k THEN i ELSE i + 1

\* The first place of the list whose task has this id (0 when there is none).
PlaceOf(id) ==
    IF NoTaskHas(id)
    THEN 0
    ELSE CHOOSE p \in 1..Len(tasks) :
            /\ At(p).id = Some(id)
            /\ \A q \in 1..(p - 1) : At(q).id # Some(id)

\* C11: complete_task on a task that is already completed returns True, leaves
\* it completed, replaces completed_at by the time of this call, and writes the
\* file again.
C11_SecondCompletion ==
    [][(/\ ret'.op = "complete_task"
        /\ now' = now
        /\ PlaceOf(ret'.arg) # 0
        /\ At(PlaceOf(ret'.arg)).completed) =>
          LET p == PlaceOf(ret'.arg)
          IN  /\ ret'.exc = "none"
              /\ ret'.val = TRUE
              /\ tasks' = tasks
              /\ heap'[tasks'[p]].completed
              /\ heap'[tasks'[p]].completed_at = Some(strftime(now))
              /\ file' # None
              /\ file'[1][2].tasks[p].completed = <<"true">>
              /\ file'[1][2].tasks[p].completed_at = <<"string", strftime(now)>>]_vars

\* A complete_task has replaced the completed_at of an earlier completion by a
\* later one.
C11_Witness ==
    /\ ret.op = "complete_task"
    /\ ret.val = TRUE
    /\ ret.was # None
    /\ At(PlaceOf(ret.arg)).completed_at # ret.was
    /\ At(PlaceOf(ret.arg)).completed_at = Some(strftime(now))

\* The file holds an object with a next_id and a list of task records that
\* have every attribute.
HasStore(f) ==
    /\ f # None
    /\ f[1][1] = "object"
    /\ DOMAIN f[1][2] = {"next_id", "tasks"}
    /\ \A i \in 1..Len(f[1][2].tasks) : DOMAIN f[1][2].tasks[i] = TaskKeys

\* C12: constructing the store on no file gives no tasks and next_id 1;
\* constructing it on a file that holds next_id n and a list of tasks gives
\* exactly those tasks in the file's order and next_id n; the first add_task
\* after that returns 1, or n.
C12_Initialize ==
    [][/\ (ret'.op = "TaskManager" /\ file = None) =>
            /\ ret'.exc = "none"
            /\ alive'
            /\ tasks' = <<>>
            /\ next_id' = 1
       /\ (ret'.op = "TaskManager" /\ HasStore(file)) =>
            /\ ret'.exc = "none"
            /\ alive'
            /\ next_id' = file[1][2].next_id[2]
            /\ Len(tasks') = Len(file[1][2].tasks)
            /\ \A i \in 1..Len(tasks') :
                  EncTask(to_dict(heap'[tasks'[i]])) = file[1][2].tasks[i]
       /\ (ret'.op = "add_task" /\ assigned = <<>> /\ file = None) =>
            ret'.val = 1
       /\ (ret'.op = "add_task" /\ assigned = <<>> /\ HasStore(file)) =>
            ret'.val = file[1][2].next_id[2]]_vars

\* The first add_task of a store constructed on a file with next_id 3 and no
\* tasks has returned 3.
C12_Witness ==
    /\ ret.op = "add_task"
    /\ assigned = <<3>>
    /\ ret.val = 3
    /\ Len(tasks) = 1

\* C13: constructing the store on a file that exists but cannot be parsed, or
\* lacks 'next_id' or 'tasks', or holds a task record that lacks an attribute,
\* raises; the store never starts on such a file.
C13_MalformedFatal ==
    (ret.op = "TaskManager" /\ file # None /\ ~HasStore(file)) =>
        /\ ret.exc # "none"
        /\ ~alive

\* The task has a deadline that is not a date strptime reads.
Malformed(t) == t.deadline # None /\ t.deadline[1] \notin DOMAIN DateTexts

\* C14: is_overdue raises ValueError for every task whose deadline is present
\* and not a date, and get_overdue_tasks raises it whenever a task of the store
\* has such a deadline.
C14_ParseError ==
    /\ (ret.op = "is_overdue" /\ Malformed(heap[task[1]])) =>
            ret.exc = "ValueError"
    /\ (ret.op = "get_overdue_tasks" /\ \E i \in 1..Len(tasks) : Malformed(At(i))) =>
            ret.exc = "ValueError"

\* The task is pending and its deadline is a text other than "" that is not a
\* date.
Unparsed(t) == ~t.completed /\ Malformed(t) /\ t.deadline[1] # ""

\* C14 as amended: is_overdue raises ValueError exactly for a task that is not
\* completed and whose deadline is a text other than "" that is not a date;
\* get_overdue_tasks raises it exactly when the store holds such a task.
C14_ParseErrorPending ==
    /\ ret.op = "is_overdue" =>
            (ret.exc = "ValueError") = Unparsed(heap[task[1]])
    /\ ret.op = "get_overdue_tasks" =>
            (ret.exc = "ValueError") = (\E i \in 1..Len(tasks) : Unparsed(At(i)))

\* get_overdue_tasks has raised on a store that holds a pending task whose
\* deadline is not a date.
C14_Witness ==
    /\ ret.op = "get_overdue_tasks"
    /\ ret.exc = "ValueError"
    /\ \E i \in 1..Len(tasks) : At(i).deadline = Some("soon") /\ ~At(i).completed

\* C15: no call but get_overdue_tasks raises, whatever the deadlines of the
\* tasks; every call leaves the deadline of every task it keeps as it was,
\* add_task stores the deadline the task was constructed with, and the file
\* holds the deadline texts as they are.
C15_LazyDeadline ==
    [][/\ ret'.exc # "none" => ret'.op = "get_overdue_tasks"
       /\ \A i \in 1..Len(tasks') :
             PlaceBefore(i) <= Len(tasks) =>
                 heap'[tasks'[i]].deadline = At(PlaceBefore(i)).deadline
       /\ ret'.op = "add_task" =>
             /\ Len(tasks') = Len(tasks) + 1
             /\ heap'[tasks'[Len(tasks')]].deadline = heap[task[1]].deadline
       /\ ret'.op = "TaskManager" => Len(tasks') = Len(tasks)
       /\ file' # None =>
             \A i \in 1..Len(tasks') :
                 file'[1][2].tasks[i].deadline =
                     IF heap'[tasks'[i]].deadline = None
                     THEN <<"null">>
                     ELSE <<"string", heap'[tasks'[i]].deadline[1]>>]_vars

\* A task whose deadline is not a date was constructed, added, completed and
\* written, and a store constructed on the file holds it with that deadline.
C15_Witness ==
    /\ ret.op = "TaskManager"
    /\ ret.exc = "none"
    /\ \E i \in 1..Len(tasks) :
          /\ At(i).deadline = Some("soon")
          /\ At(i).completed

\* C16: a task has no id before add_task; once a task of the store has an id
\* and a created_at, every step that leaves it in the store leaves both as they
\* were, an add_task of the same object included.
C16_IdImmutable ==
    [][/\ ret'.op = "Task" => heap'[task'[1]].id = None
       /\ \A i \in 1..Len(tasks') :
             PlaceBefore(i) <= Len(tasks) =>
                 /\ heap'[tasks'[i]].id = At(PlaceBefore(i)).id
                 /\ heap'[tasks'[i]].created_at = At(PlaceBefore(i)).created_at]_vars

\* The file holds the store as it is in memory (no file: the store as
\* constructed).
FileAgrees ==
    IF file = None
    THEN tasks = <<>> /\ next_id = 1
    ELSE /\ file[1][1] = "object"
         /\ file[1][2].next_id = <<"number", next_id>>
         /\ Len(file[1][2].tasks) = Len(tasks)
         /\ \A i \in 1..Len(tasks) : file[1][2].tasks[i] = Written(At(i))

\* The step is a call whose save_tasks raised.
SaveRaised == ret'.exc = "OSError"

\* The step is a call whose save_tasks returned.
SaveReturned ==
    /\ ret'.exc = "none"
    /\ \/ ret'.op = "add_task"
       \/ ret'.op \in {"delete_task", "complete_task"} /\ ret'.val = TRUE

\* A call whose save_tasks raised keeps what it did to the store in memory.
NoRollback ==
    /\ ret'.op = "add_task" =>
          /\ tasks' = Append(tasks, task[1])
          /\ next_id' = next_id + 1
          /\ heap'[tasks'[Len(tasks')]].id = Some(next_id)
    /\ ret'.op = "delete_task" =>
          /\ Len(tasks') = Len(tasks) - 1
          /\ \A i \in 1..Len(tasks') : heap'[tasks'[i]] = At(PlaceBeforeRaised(i))
    /\ ret'.op = "complete_task" =>
          /\ tasks' = tasks
          /\ heap'[tasks'[PlaceOf(ret'.arg)]].completed
          /\ heap'[tasks'[PlaceOf(ret'.arg)]].completed_at = Some(strftime(now))

\* C17: when the save_tasks call of add_task, delete_task or complete_task
\* raises, what the call did in memory stays, and the store then differs from
\* the file; it differs until a later save_tasks returns, and then they agree.
C17_NoRollback ==
    [][/\ SaveRaised => (NoRollback /\ ~FileAgrees')
       /\ (~FileAgrees /\ ~SaveReturned) => ~FileAgrees'
       /\ SaveReturned => FileAgrees']_vars

\* The call found the store as it leaves it: a complete_task of a task that was
\* completed at the same clock reading.
NothingDone == ret'.op = "complete_task" /\ heap' = heap

\* C17 as amended: when the save_tasks call of add_task, delete_task or
\* complete_task raises, what the call did in memory stays; the store then
\* differs from the file if the call changed the store or the file (always,
\* but for a complete_task that repeats a completion within the same clock
\* reading while the file stays as it was); a store that differs from the file
\* differs until a later save_tasks returns, and then they agree.
C17_NoRollbackOfChange ==
    [][/\ SaveRaised => NoRollback
       /\ (SaveRaised /\ ~NothingDone) => ~FileAgrees'
       /\ (SaveRaised /\ file' # file) => ~FileAgrees'
       /\ (~FileAgrees /\ ~SaveReturned) => ~FileAgrees'
       /\ SaveReturned => FileAgrees']_vars

\* After an add_task whose save_tasks raised, a later add_task has returned and
\* the file holds both tasks.
C17_Witness ==
    /\ ret.op = "add_task"
    /\ ret.exc = "none"
    /\ Len(tasks) = 2
    /\ assigned = <<2>>
    /\ FileAgrees

HasAfter(id) == \E i \in 1..Len(tasks') : heap'[tasks'[i]].id = Some(id)

\* The step is a delete_task of this id that returned True.
Deleted(id) == ret'.op = "delete_task" /\ ret'.arg = id /\ ret'.val = TRUE

\* C19: add_task gives the task the id next_id, appends it to the list and
\* leaves the tasks of the list as they were, adds one to next_id and returns
\* the id; get_task of an id returns a task with that id from the add_task on,
\* until a delete_task of the id returns True, and None ever after.
C19_AddThenGet ==
    [][/\ ret'.op = "add_task" =>
             /\ ret'.val = next_id
             /\ next_id' = next_id + 1
             /\ Len(tasks') = Len(tasks) + 1
             /\ heap'[tasks'[Len(tasks')]].id = Some(next_id)
             /\ \A i \in 1..Len(tasks) : heap'[tasks'[i]] = At(i)
       /\ ret'.op = "get_task" =>
             IF NoTaskHas(ret'.arg)
             THEN ret'.val = None
             ELSE /\ ret'.val # None
                  /\ heap[ret'.val[1]].id = Some(ret'.arg)
       /\ \A id \in IdArgs :
             /\ (~NoTaskHas(id) /\ ~Deleted(id)) => HasAfter(id)
             /\ Deleted(id) => ~HasAfter(id)
             /\ ((\E i \in 1..Len(assigned) : assigned[i] = id) /\ NoTaskHas(id)) =>
                    ~HasAfter(id)]_vars

\* C20: in a store started on no file and constructed again on its file any
\* number of times, next_id in memory and in the file is above every id add_task
\* has returned, the ids of deleted tasks included, so that no add_task returns
\* an id returned before.
C20_NoReuse ==
    /\ \A i \in 1..Len(assigned) :
          /\ next_id > assigned[i]
          /\ file # None
          /\ file[1][2].next_id[2] > assigned[i]
    /\ ret.op = "add_task" =>
          \A i \in 1..(Len(assigned) - 1) : ret.val > assigned[i]

\* A store constructed on the file after two add_task calls and the deletion of
\* both tasks: it holds no task and its next_id is above both ids.
C20_Witness ==
    /\ ret.op = "TaskManager"
    /\ Len(assigned) = 2
    /\ tasks = <<>>
    /\ next_id = assigned[2] + 1

====
